---- MODULE Spec2Model ----
(***************************************************************************)
(* Model of the economic-data readers:                                     *)
(*   ons.CSV            header/metadata partitioner (src/ons.py)           *)
(*   imf.WEO            dated-release reader (src/imf/imf.py)              *)
(*   imf.detect_encoding, imf.WEO.infer_encoding                           *)
(*                                                                         *)
(* Text is a sequence of one-character strings.  In CSV lines the letter   *)
(* "C" stands for the text CDID, "T" and "U" for two of the metadata       *)
(* labels (Title, Unit) and "x" for any other text.                        *)
(***************************************************************************)
EXTENDS Integers, Sequences, FiniteSets, TLC

\* ------------------------------------------------------------------ bounds
\* Longest source, in physical lines.
MaxLines == 3

\* Release years tried in file names.
MinYear == 2009

MaxYear == 2025

\* Largest min_lines and largest max_lines given to detect_encoding.
MaxMinLines == 3

MaxMaxLines == 3

\* ------------------------------------------------------------ text helpers
RECURSIVE Join(_)
\* ''.join(lines)
Join(lines) ==
    IF lines = <<>> THEN <<>> ELSE Head(lines) \o Join(Tail(lines))

\* ------------------------------------------------- csv.reader (excel dialect)
\* The standard-library row parser that CSV._iter drives: delimiter ",",
\* quotechar '"', doublequote, not strict, no escapechar.  "EOL" is the
\* end-of-line sentinel the parser is handed after the last character of
\* each line.
IsNL(c) == c \in {"\n", "\r"}

ParserReset == [st |-> "START_RECORD", field |-> <<>>, fields |-> <<>>, err |-> FALSE]

SaveField(p) == [p EXCEPT !.fields = Append(p.fields, p.field), !.field = <<>>]

AddChar(p, c) == [p EXCEPT !.field = Append(p.field, c)]

StartField(p, c) ==
    IF IsNL(c) \/ c = "EOL"
    THEN [SaveField(p) EXCEPT !.st = IF c = "EOL" THEN "START_RECORD" ELSE "EAT_CRNL"]
    ELSE IF c = "\"" THEN [p EXCEPT !.st = "IN_QUOTED_FIELD"]
    ELSE IF c = "," THEN [SaveField(p) EXCEPT !.st = "START_FIELD"]
    ELSE [AddChar(p, c) EXCEPT !.st = "IN_FIELD"]

ProcessChar(p, c) ==
    CASE p.st = "START_RECORD" ->
            IF c = "EOL" THEN p
            ELSE IF IsNL(c) THEN [p EXCEPT !.st = "EAT_CRNL"]
            ELSE StartField(p, c)
      [] p.st = "START_FIELD" -> StartField(p, c)
      [] p.st = "IN_FIELD" ->
            IF IsNL(c) \/ c = "EOL"
            THEN [SaveField(p) EXCEPT !.st = IF c = "EOL" THEN "START_RECORD" ELSE "EAT_CRNL"]
            ELSE IF c = "," THEN [SaveField(p) EXCEPT !.st = "START_FIELD"]
            ELSE AddChar(p, c)
      [] p.st = "IN_QUOTED_FIELD" ->
            IF c = "EOL" THEN p
            ELSE IF c = "\"" THEN [p EXCEPT !.st = "QUOTE_IN_QUOTED_FIELD"]
            ELSE AddChar(p, c)
      [] p.st = "QUOTE_IN_QUOTED_FIELD" ->
            IF c = "\"" THEN [AddChar(p, c) EXCEPT !.st = "IN_QUOTED_FIELD"]
            ELSE IF c = "," THEN [SaveField(p) EXCEPT !.st = "START_FIELD"]
            ELSE IF IsNL(c) \/ c = "EOL"
            THEN [SaveField(p) EXCEPT !.st = IF c = "EOL" THEN "START_RECORD" ELSE "EAT_CRNL"]
            ELSE [AddChar(p, c) EXCEPT !.st = "IN_FIELD"]
      [] p.st = "EAT_CRNL" ->
            IF IsNL(c) THEN p
            ELSE IF c = "EOL" THEN [p EXCEPT !.st = "START_RECORD"]
            ELSE [p EXCEPT !.err = TRUE]

RECURSIVE ProcessLine(_, _)
\* every character of one physical line, then the sentinel
ProcessLine(p, line) ==
    IF line = <<>> THEN ProcessChar(p, "EOL")
    ELSE ProcessLine(ProcessChar(p, Head(line)), Tail(line))

RECURSIVE ReadRowFrom(_, _, _)
\* Reader.__next__: pull physical lines until the parser is back at
\* START_RECORD.  pos is reader.line_num, the lines pulled so far.
ReadRowFrom(p, lines, pos) ==
    IF pos >= Len(lines)
    THEN IF p.field # <<>> \/ p.st = "IN_QUOTED_FIELD"
         THEN [stop |-> FALSE, row |-> SaveField(p).fields, line_num |-> pos]
         ELSE [stop |-> TRUE, row |-> <<>>, line_num |-> pos]
    ELSE LET q == ProcessLine(p, lines[pos + 1])
         IN  IF q.st = "START_RECORD"
             THEN [stop |-> FALSE, row |-> q.fields, line_num |-> pos + 1]
             ELSE ReadRowFrom(q, lines, pos + 1)

ReadRow(lines, pos) == ReadRowFrom(ParserReset, lines, pos)

\* ---------------------------------------------------------------- ons.CSV
CODE == <<"C">>

FIELDS == {<<"T">>, <<"U">>}

\* every row taken to span one physical line
RowCountOne(start, end) == 1

\* count = end - start: the physical lines the row just parsed spans
RowCount(start, end) == end - start

\* [next(line_stream) for _ in range(count)]: line_stream is the second
\* branch of itertools.tee, so it replays the source's own lines in order
TakeLines(lines, linePos, count) == SubSeq(lines, linePos + 1, linePos + count)

RECURSIVE IterLoopNoBreak(_, _, _, _, _)
\* the row loop going on to the next row where it should stop: every row
\* of the stream is looked at, and a later header or metadata row takes the
\* next lines of line_stream
IterLoopNoBreak(lines, start, linePos, hdr, meta) ==
    LET r == ReadRow(lines, start)
        count == RowCount(start, r.line_num)
    IN  IF r.stop
        THEN [exc |-> "none", header_lines |-> hdr, metadata_lines |-> meta,
              linePos |-> linePos, pulled |-> r.line_num]
        ELSE IF r.row = <<>>
        THEN [exc |-> "IndexError", header_lines |-> hdr, metadata_lines |-> meta,
              linePos |-> linePos, pulled |-> r.line_num]
        ELSE IF r.row[1] = CODE
        THEN IterLoopNoBreak(lines, r.line_num, linePos + count,
                             hdr \o TakeLines(lines, linePos, count), meta)
        ELSE IF r.row[1] \in FIELDS
        THEN IterLoopNoBreak(lines, r.line_num, linePos + count,
                             hdr, meta \o TakeLines(lines, linePos, count))
        ELSE IterLoopNoBreak(lines, r.line_num, linePos, hdr, meta)

RECURSIVE IterLoop(_, _, _, _, _)
\* the "for row in reader" loop of CSV._iter; start is the reader's
\* line_num before the row, linePos the lines taken from line_stream
IterLoop(lines, start, linePos, hdr, meta) ==
    LET r == ReadRow(lines, start)
        count == RowCount(start, r.line_num)
    IN  IF r.stop
        THEN [exc |-> "none", header_lines |-> hdr, metadata_lines |-> meta,
              linePos |-> linePos, pulled |-> r.line_num]
        ELSE IF r.row = <<>>
        THEN [exc |-> "IndexError", header_lines |-> hdr, metadata_lines |-> meta,
              linePos |-> linePos, pulled |-> r.line_num]
        ELSE IF r.row[1] = CODE
        THEN IterLoop(lines, r.line_num, linePos + count,
                      hdr \o TakeLines(lines, linePos, count), meta)
        ELSE IF r.row[1] \in FIELDS
        THEN IterLoop(lines, r.line_num, linePos + count,
                      hdr, meta \o TakeLines(lines, linePos, count))
        ELSE [exc |-> "none", header_lines |-> hdr, metadata_lines |-> meta,
              linePos |-> linePos, pulled |-> r.line_num]

\* _iter with a loop that must meet a Data row: running off the end of the
\* stream raises
IterRaisesOnExhaustion(lines) ==
    LET it == IterLoop(lines, 0, 0, <<>>, <<>>)
    IN  IF it.exc = "none" /\ it.linePos = Len(lines)
        THEN [it EXCEPT !.exc = "StopIteration"]
        ELSE it

\* _iter over a source read to its end before the rows are looked at
IterReadsAhead(lines) ==
    [IterLoop(lines, 0, 0, <<>>, <<>>) EXCEPT !.pulled = Len(lines)]

\* CSV._iter(buffer)
Iter(lines) == IterLoop(lines, 0, 0, <<>>, <<>>)

\* ------------------------------------------------------ WEO.infer_encoding
\* str.rfind(c): the last 1-based index of c in s, 0 when absent
RFind(s, c) ==
    LET at == {k \in 1..Len(s) : s[k] = c}
    IN  IF at = {} THEN 0 ELSE CHOOSE k \in at : \A j \in at : j <= k

\* Path(filename_or_path).name: the final path component
PathName(path) == SubSeq(path, RFind(path, "/") + 1, Len(path))

\* Path(filename_or_path).stem: the name without its last suffix; a leading
\* or a trailing dot starts no suffix
PathStem(path) ==
    LET name == PathName(path)
        dot == RFind(name, ".")
    IN  IF 1 < dot /\ dot < Len(name) THEN SubSeq(name, 1, dot - 1) ELSE name

IsDigit(c) == c \in {"0", "1", "2", "3", "4", "5", "6", "7", "8", "9"}

IsSpace(c) == c \in {" ", "\t", "\n", "\r", "\f"}

\* the tail  .+?(?:[.].*)?$  of FILENAME_PATTERN: one character or more, none
\* of them a line break ("$" also matches before one final "\n")
TailMatches(rest) ==
    LET body == IF rest # <<>> /\ rest[Len(rest)] = "\n"
                THEN SubSeq(rest, 1, Len(rest) - 1) ELSE rest
    IN  /\ Len(body) >= 1
        /\ \A k \in 1..Len(body) : body[k] # "\n"

\* the pattern without its literal prefix:  ^\S{3}(?P<month>\S{3})(?P<year>\d{4})...
FILENAME_PATTERN_AnyPrefix(name) ==
    IF /\ Len(name) >= 10
       /\ \A k \in 1..6 : ~IsSpace(name[k])
       /\ \A k \in 7..10 : IsDigit(name[k])
       /\ TailMatches(SubSeq(name, 11, Len(name)))
    THEN [matched |-> TRUE, month |-> SubSeq(name, 4, 6), year |-> SubSeq(name, 7, 10)]
    ELSE [matched |-> FALSE, month |-> <<>>, year |-> <<>>]

\* FILENAME_PATTERN.search(name):  ^WEO(?P<month>\S{3})(?P<year>\d{4}).+?(?:[.].*)?$
FILENAME_PATTERN(name) ==
    IF /\ Len(name) >= 10
       /\ SubSeq(name, 1, 3) = <<"W", "E", "O">>
       /\ \A k \in 4..6 : ~IsSpace(name[k])
       /\ \A k \in 7..10 : IsDigit(name[k])
       /\ TailMatches(SubSeq(name, 11, Len(name)))
    THEN [matched |-> TRUE, month |-> SubSeq(name, 4, 6), year |-> SubSeq(name, 7, 10)]
    ELSE [matched |-> FALSE, month |-> <<>>, year |-> <<>>]

\* calendar.month_abbr, numbered from 1
MONTH_NUMBERS ==
    (<<"J", "a", "n">> :> 1) @@ (<<"F", "e", "b">> :> 2) @@ (<<"M", "a", "r">> :> 3) @@
    (<<"A", "p", "r">> :> 4) @@ (<<"M", "a", "y">> :> 5) @@ (<<"J", "u", "n">> :> 6) @@
    (<<"J", "u", "l">> :> 7) @@ (<<"A", "u", "g">> :> 8) @@ (<<"S", "e", "p">> :> 9) @@
    (<<"O", "c", "t">> :> 10) @@ (<<"N", "o", "v">> :> 11) @@ (<<"D", "e", "c">> :> 12)

DigitValue(c) ==
    CASE c = "0" -> 0 [] c = "1" -> 1 [] c = "2" -> 2 [] c = "3" -> 3 [] c = "4" -> 4
      [] c = "5" -> 5 [] c = "6" -> 6 [] c = "7" -> 7 [] c = "8" -> 8 [] c = "9" -> 9

RECURSIVE ParseInt(_)
\* int(digits)
ParseInt(digits) ==
    IF digits = <<>> THEN 0
    ELSE 10 * ParseInt(SubSeq(digits, 1, Len(digits) - 1)) + DigitValue(digits[Len(digits)])

Returns(enc) == [kind |-> "return", value |-> enc]

Raises(exception, message) == [kind |-> exception, value |-> message]

\* the rule table with the April branch's threshold compared the wrong way
\* round at the boundary year (year > 2022)
EncodingRulesStrict(month, year) ==
    IF month = 4
    THEN IF year > 2022 THEN Returns("utf-16le") ELSE Returns("ISO-8859-1")
    ELSE IF month = 10
    THEN IF year = 2020 THEN Returns("utf-16le") ELSE Returns("ISO-8859-1")
    ELSE IF month = 9 /\ year = 2011 THEN Returns("ISO-8859-1")
    ELSE Raises("ValueError", "Unable to infer file encoding from")

\* the rule table with a default charset instead of the final raise
EncodingRulesDefault(month, year) ==
    IF month = 4
    THEN IF year >= 2022 THEN Returns("utf-16le") ELSE Returns("ISO-8859-1")
    ELSE IF month = 10
    THEN IF year = 2020 THEN Returns("utf-16le") ELSE Returns("ISO-8859-1")
    ELSE Returns("ISO-8859-1")

\* "Infer the file encoding from the month-year combination"
EncodingRules(month, year) ==
    IF month = 4
    THEN IF year >= 2022 THEN Returns("utf-16le") ELSE Returns("ISO-8859-1")
    ELSE IF month = 10
    THEN IF year = 2020 THEN Returns("utf-16le") ELSE Returns("ISO-8859-1")
    ELSE IF month = 9 /\ year = 2011 THEN Returns("ISO-8859-1")
    ELSE Raises("ValueError", "Unable to infer file encoding from")

\* the month looked up with a fallback that reports an unknown month as a
\* name that does not fit the pattern
infer_encoding_MonthAsMismatch(filename_or_path) ==
    LET name == PathStem(filename_or_path)
        match_ == FILENAME_PATTERN(name)
    IN  IF ~match_.matched \/ match_.month \notin DOMAIN MONTH_NUMBERS
        THEN Raises("ValueError", "Unable to infer file encoding from name")
        ELSE EncodingRules(MONTH_NUMBERS[match_.month], ParseInt(match_.year))

\* WEO.infer_encoding(filename_or_path) with the default pattern
infer_encoding(filename_or_path) ==
    LET name == PathStem(filename_or_path)
        match_ == FILENAME_PATTERN(name)
    IN  IF ~match_.matched
        THEN Raises("ValueError", "Unable to infer file encoding from name")
        ELSE IF match_.month \notin DOMAIN MONTH_NUMBERS
        THEN Raises("KeyError", "month")
        ELSE EncodingRules(MONTH_NUMBERS[match_.month], ParseInt(match_.year))

\* -------------------------------------------------------- detect_encoding
\* detector.done after `fed` lines: the detector reaches its conclusion on
\* line doneFrom and keeps it (a detector that is done ignores further input)
DetectorDone(fed, doneFrom) == fed >= doneFrom

\* detector.result once closed: the best guess for what was fed
DetectorResult(fed) == [encoding |-> IF fed = 0 THEN "None" ELSE "guess", fed |-> fed]

\* a detector kept from one call to the next: it has been fed already
UniversalDetectorShared(prev) == prev

\* detector = UniversalDetector(): every call makes a detector of its own,
\* fed nothing; prev is the detector of the call before
UniversalDetector(prev) == 0

\* the loop exits as soon as the detector is done, whatever the minimum
BreakAfterNoMin(n, isDone, minLines, maxLines) ==
    IF maxLines = -1 THEN FALSE
    ELSE IF n >= maxLines /\ maxLines > 0 THEN TRUE
    ELSE isDone

\* the loop exits without the maximum
BreakAfterNoMax(n, isDone, minLines, maxLines) ==
    IF maxLines = -1 THEN FALSE
    ELSE n >= minLines /\ isDone

\* the loop without the test for max_lines = -1
BreakAfterNoAll(n, isDone, minLines, maxLines) ==
    IF n >= maxLines /\ maxLines > 0 THEN TRUE
    ELSE n >= minLines /\ isDone

\* the maximum tested without "> 0": max_lines = 0 is a ceiling of no lines
BreakAfterZeroCeiling(n, isDone, minLines, maxLines) ==
    IF maxLines = -1 THEN FALSE
    ELSE IF n >= maxLines THEN TRUE
    ELSE n >= minLines /\ isDone

\* the three tests that end an iteration of the feeding loop, in order
BreakAfter(n, isDone, minLines, maxLines) ==
    IF maxLines = -1 THEN FALSE
    ELSE IF n >= maxLines /\ maxLines > 0 THEN TRUE
    ELSE n >= minLines /\ isDone

\* the warning left out
WarnsNever(isDone) == FALSE

\* "if not done": warnings.warn(msg) is reached
Warns(isDone) == ~isDone

RECURSIVE FeedLoop(_, _, _, _, _)
\* the whole feeding loop over a buffer of nLines lines, from n lines fed
FeedLoop(n, nLines, doneAt, minLines, maxLines) ==
    IF n >= nLines THEN n
    ELSE IF BreakAfter(n + 1, DetectorDone(n + 1, doneAt), minLines, maxLines) THEN n + 1
    ELSE FeedLoop(n + 1, nLines, doneAt, minLines, maxLines)

\* ------------------------------------------------------------------- state
VARIABLES
    filename_or_path,   \* the name handed to infer_encoding / the path opened
    inferred,           \* what infer_encoding returned or raised
    nLines,             \* detect_encoding: lines in the buffer
    doneFrom,           \* the line on which the detector reaches "done"
    min_lines, max_lines,
    i,                  \* lines fed to the detector so far
    done,               \* the loop's copy of detector.done
    detector,           \* the detector object: the lines it has been fed
    first,              \* what an earlier call on the same source returned
    dpc,                \* detect_encoding: "idle", "loop", "close", "returned"
    warned,             \* warnings.warn was called
    result,             \* what detect_encoding returned
    cls,                \* the reader class under construction: "CSV", "WEO"
    arg,                \* what path_or_buffer is
    encArg,             \* WEO's encoding argument
    src,                \* the lines of the file or buffer
    phase,              \* "new", "ready" (constructed), "raised"
    exc,                \* the exception the constructor raised
    scope,              \* the with-block: "none", "entered", "exited"
    deleted,            \* __del__ has run
    hState,             \* the underlying handle: "none", "open", "closed"
    hCloses,            \* calls of close() on the handle
    hPos,               \* lines pulled from the handle
    header_lines, metadata_lines,
    metadata_text,      \* CSV._metadata
    hdrIdx,             \* header lines the data() generator has yielded
    linePos,            \* lines taken from line_stream
    encoding,           \* WEO.encoding
    stream,             \* WEO._stream: "None" or "handle"
    yielded,            \* the lines the reader has returned, in call order
    lastRet             \* the last call and what it returned or raised

inferVars == <<filename_or_path, inferred>>

detVars == <<nLines, doneFrom, min_lines, max_lines, i, done, detector, first,
             dpc, warned, result>>

rdrVars == <<cls, arg, encArg, src, phase, exc, scope, deleted, hState, hCloses, hPos,
             header_lines, metadata_lines, metadata_text, hdrIdx, linePos,
             encoding, stream, yielded, lastRet>>

vars == <<inferVars, detVars, rdrVars>>

Pending == [kind |-> "pending", value |-> ""]

NoCall == [op |-> "none", kind |-> "none", val |-> <<>>]

\* no earlier call of detect_encoding
NoRun == [fed |-> -1, result |-> DetectorResult(0), warned |-> FALSE]

InferIdle ==
    /\ filename_or_path = <<>>
    /\ inferred = Pending

DetectParamsIdle ==
    /\ nLines = 0
    /\ doneFrom = 1
    /\ min_lines = 1
    /\ max_lines = 0

DetectRunIdle ==
    /\ i = 0
    /\ done = FALSE
    /\ detector = 0
    /\ first = NoRun
    /\ dpc = "idle"
    /\ warned = FALSE
    /\ result = DetectorResult(0)

ReaderFieldsInit ==
    /\ phase = "new"
    /\ exc = "none"
    /\ scope = "none"
    /\ deleted = FALSE
    /\ hCloses = 0
    /\ hPos = 0
    /\ header_lines = <<>>
    /\ metadata_lines = <<>>
    /\ metadata_text = <<>>
    /\ hdrIdx = 0
    /\ linePos = 0
    /\ encoding = "unset"
    /\ stream = "None"
    /\ yielded = <<>>
    /\ lastRet = NoCall

ReaderIdle ==
    /\ cls = "none"
    /\ arg = "none"
    /\ encArg = "None"
    /\ src = <<>>
    /\ hState = "none"
    /\ ReaderFieldsInit

\* ------------------------------------------- infer_encoding: specification
RECURSIVE Digits(_)
\* str(n)
Digits(n) ==
    IF n < 10 THEN <<CHOOSE c \in {"0", "1", "2", "3", "4", "5", "6", "7", "8", "9"} :
                        DigitValue(c) = n>>
    ELSE Digits(n \div 10) \o Digits(n % 10)

Dirs == {<<>>, <<"d", "/">>}

Prefixes == {<<"W", "E", "O">>, <<"w", "e", "o">>, <<"W", "E">>}

MonthTokens ==
    {<<"J", "a", "n">>, <<"A", "p", "r">>, <<"S", "e", "p">>, <<"O", "c", "t">>,
     <<"a", "p", "r">>, <<"A", "P", "R">>, <<"A", " ", "r">>, <<"A", "p">>}

YearTokens == {Digits(y) : y \in MinYear..MaxYear} \cup {<<"2", "0", "x", "1">>, <<"2", "0", "2">>}

Suffixes == {<<>>, <<"a", "l", "l">>, <<"5">>}

Extensions == {<<>>, <<".", "x", "l", "s">>}

FileNames ==
    {d \o p \o m \o y \o x \o e :
        d \in Dirs, p \in Prefixes, m \in MonthTokens, y \in YearTokens,
        x \in Suffixes, e \in Extensions}

InitInfer ==
    /\ filename_or_path \in FileNames
    /\ inferred = Pending
    /\ DetectParamsIdle /\ DetectRunIdle
    /\ ReaderIdle

\* a call WEO.infer_encoding(filename_or_path)
InferEncoding ==
    /\ inferred = Pending
    /\ cls = "none"
    /\ filename_or_path # <<>>
    /\ inferred' = infer_encoding(filename_or_path)
    /\ UNCHANGED <<filename_or_path, detVars, rdrVars>>

NextInfer == InferEncoding

SpecInfer == InitInfer /\ [][NextInfer]_vars

\* ------------------------------------------ detect_encoding: specification
InitDetect ==
    /\ nLines \in 0..MaxLines
    /\ doneFrom \in 1..(MaxLines + 1)
    /\ min_lines \in 1..MaxMinLines
    /\ max_lines \in -1..MaxMaxLines
    /\ i = 0
    /\ done = FALSE
    /\ detector = UniversalDetector(0)
    /\ first = NoRun
    /\ dpc = "loop"
    /\ warned = FALSE
    /\ result = DetectorResult(0)
    /\ InferIdle
    /\ ReaderIdle

\* one iteration of "for i, line in enumerate(buffer, start=1)"
DetectFeed ==
    /\ dpc = "loop"
    /\ i < nLines
    /\ i' = i + 1
    /\ detector' = detector + 1
    /\ done' = DetectorDone(detector + 1, doneFrom)
    /\ dpc' = IF BreakAfter(i + 1, DetectorDone(detector + 1, doneFrom), min_lines, max_lines)
              THEN "close" ELSE "loop"
    /\ UNCHANGED <<nLines, doneFrom, min_lines, max_lines, first, warned, result,
                   inferVars, rdrVars>>

\* the buffer is exhausted: the for loop ends
DetectExhausted ==
    /\ dpc = "loop"
    /\ i = nLines
    /\ dpc' = "close"
    /\ UNCHANGED <<nLines, doneFrom, min_lines, max_lines, i, done, detector, first,
                   warned, result, inferVars, rdrVars>>

\* detector.close(), the warning, return detector.result
DetectClose ==
    /\ dpc = "close"
    /\ warned' = Warns(done)
    /\ result' = DetectorResult(detector)
    /\ dpc' = "returned"
    /\ UNCHANGED <<nLines, doneFrom, min_lines, max_lines, i, done, detector, first,
                   inferVars, rdrVars>>

NextDetect == DetectFeed \/ DetectExhausted \/ DetectClose

SpecDetect == InitDetect /\ [][NextDetect]_vars

\* a second call detect_encoding(...) with the same min_lines and max_lines,
\* on a fresh source of the same bytes, once the first call has returned
DetectAgain ==
    /\ dpc = "returned"
    /\ first = NoRun
    /\ first' = [fed |-> i, result |-> result, warned |-> warned]
    /\ detector' = UniversalDetector(detector)
    /\ i' = 0
    /\ done' = FALSE
    /\ dpc' = "loop"
    /\ warned' = FALSE
    /\ result' = DetectorResult(0)
    /\ UNCHANGED <<nLines, doneFrom, min_lines, max_lines, inferVars, rdrVars>>

NextDetectTwice == DetectFeed \/ DetectExhausted \/ DetectClose \/ DetectAgain

SpecDetectTwice == InitDetect /\ [][NextDetectTwice]_vars

\* ------------------------------------------------- the readers: inputs
\* physical lines of an ONS file; only the last line of a file may lack
\* its line terminator
HeaderLine == <<"\"", "C", "\"", ",", "x", "\n">>

TitleLine == <<"T", ",", "x", "\n">>

UnitOpenLine == <<"\"", "U", "\"", ",", "\"", "x", "\n">>

TitleOpenLine == <<"\"", "T", "\n">>

CloseLine == <<"x", "\"", ",", "x", "\n">>

DataLine == <<"x", ",", "x", "\n">>

BlankLine == <<"\n">>

HeaderLineNoEol == <<"C", ",", "x">>

DataLineNoEol == <<"x">>

FullLines ==
    {HeaderLine, TitleLine, UnitOpenLine, TitleOpenLine, CloseLine, DataLine, BlankLine}

LastOnlyLines == {HeaderLineNoEol, DataLineNoEol}

SourcesOver(full, lastOnly) ==
    UNION {{s \in [1..n -> full \cup lastOnly] : \A k \in 1..(n - 1) : s[k] \in full} :
              n \in 0..MaxLines}

CsvSources == SourcesOver(FullLines, LastOnlyLines)

WeoSources == SourcesOver({<<"a", "\n">>, <<"b", "\n">>}, {})

WeoPaths ==
    {<<"W", "E", "O", "A", "p", "r", "2", "0", "2", "4", "a", "l", "l", ".", "x", "l", "s">>,
     <<"W", "E", "O", "O", "c", "t", "2", "0", "1", "9", "a", "l", "l">>,
     <<"W", "E", "O", "J", "a", "n", "2", "0", "2", "0", "a", "l", "l">>,
     <<"W", "E", "O", "x", "y", "z", "2", "0", "2", "0", "a", "l", "l">>,
     <<"d", "a", "t", "a", ".", "x", "l", "s">>}

EncArgs == {"None", "infer_", "detect_", "ISO-8859-1"}

\* the routes of WEO.__init__ in which detect_encoding reads lines
UsesDetection(a, e) == a \in {"file", "path"} /\ e = "detect_"

\* the route of WEO.__init__ that calls infer_encoding on a path
UsesName(a, e) == a = "path" /\ e \in {"None", "infer_"}

InitCSV ==
    /\ cls = "CSV"
    /\ arg \in {"path", "buffer"}
    /\ encArg = "None"
    /\ src \in CsvSources
    /\ hState = IF arg = "path" THEN "none" ELSE "open"
    /\ filename_or_path = <<>>
    /\ DetectParamsIdle

InitWEO ==
    /\ cls = "WEO"
    /\ arg \in {"path", "StringIO", "BytesIO", "file"}
    /\ encArg \in EncArgs
    /\ src \in WeoSources
    /\ hState = IF arg = "path" THEN "none" ELSE "open"
    /\ IF UsesName(arg, encArg)
       THEN filename_or_path \in WeoPaths
       ELSE filename_or_path = <<>>
    /\ IF UsesDetection(arg, encArg)
       THEN /\ nLines = Len(src)
            /\ doneFrom \in 1..(MaxLines + 1)
            /\ min_lines \in 1..2
            /\ max_lines \in -1..1
       ELSE DetectParamsIdle

Init ==
    /\ InitCSV \/ InitWEO
    /\ ReaderFieldsInit
    /\ inferred = Pending
    /\ DetectRunIdle

\* ------------------------------------------------------ the readers: steps
Min(a, b) == IF a <= b THEN a ELSE b

Max(a, b) == IF a >= b THEN a ELSE b

\* bytes.decode / open(path, encoding=...): the text of a line of bytes under
\* a charset
Decode(line, charset) == <<charset>> \o line

\* the text the WEO reader hands out for a line of its source
TextOf(line) == IF arg = "StringIO" THEN line ELSE Decode(line, encoding)

\* the lines self._buffer has still to yield
RemainingLines ==
    IF cls = "CSV"
    THEN SubSeq(header_lines, hdrIdx + 1, Len(header_lines)) \o SubSeq(src, linePos + 1, Len(src))
    ELSE [k \in 1..(Len(src) - hPos) |-> TextOf(src[hPos + k])]

\* a buffer that hands lines out without moving on
ConsumeNothing(k) == UNCHANGED <<hdrIdx, linePos, hPos>>

\* next(self._buffer), k times.  CSV: the data() generator first yields the
\* header lines, then the lines of line_stream, which come out of the tee's
\* queue or, beyond it, are pulled from the handle.  WEO: the handle itself.
Consume(k) ==
    IF cls = "CSV"
    THEN LET fromHeader == Min(k, Len(header_lines) - hdrIdx)
         IN  /\ hdrIdx' = hdrIdx + fromHeader
             /\ linePos' = linePos + (k - fromHeader)
             /\ hPos' = Max(hPos, linePos + (k - fromHeader))
    ELSE /\ hPos' = hPos + k
         /\ UNCHANGED <<hdrIdx, linePos>>

Called(op, kind, val) == [op |-> op, kind |-> kind, val |-> val]

\* the frame of a call that reads: everything but the position and the log
ReadFrame ==
    UNCHANGED <<cls, arg, encArg, src, phase, exc, scope, deleted, hState, hCloses,
                header_lines, metadata_lines, metadata_text, encoding, stream,
                inferVars, detVars>>

CanCall(c) == cls = c /\ phase = "ready" /\ ~deleted

\* __next__: return next(self._buffer)
ReaderNext(c) ==
    /\ CanCall(c)
    /\ IF RemainingLines # <<>>
       THEN /\ Consume(1)
            /\ yielded' = Append(yielded, RemainingLines[1])
            /\ lastRet' = Called("next", "value", RemainingLines[1])
       ELSE /\ Consume(0)
            /\ yielded' = yielded
            /\ lastRet' = Called("next", "StopIteration", <<>>)
    /\ ReadFrame

\* one step of "for line in reader": __iter__ yields from self._buffer
ReaderIter(c) ==
    /\ CanCall(c)
    /\ IF RemainingLines # <<>>
       THEN /\ Consume(1)
            /\ yielded' = Append(yielded, RemainingLines[1])
            /\ lastRet' = Called("iter", "value", RemainingLines[1])
       ELSE /\ Consume(0)
            /\ yielded' = yielded
            /\ lastRet' = Called("iter", "end", <<>>)
    /\ ReadFrame

\* readline() without its except clause: StopIteration escapes
AtEndRaises == Called("readline", "StopIteration", <<>>)

\* what readline() returns at the end of the stream: ''
AtEnd == Called("readline", "value", <<>>)

\* readline: next(self._buffer), '' on StopIteration
ReaderReadline(c, op) ==
    /\ CanCall(c)
    /\ IF RemainingLines # <<>>
       THEN /\ Consume(1)
            /\ yielded' = Append(yielded, RemainingLines[1])
            /\ lastRet' = Called(op, "value", RemainingLines[1])
       ELSE /\ Consume(0)
            /\ yielded' = yielded
            /\ lastRet' = [AtEnd EXCEPT !.op = op]
    /\ ReadFrame

\* the sizes read is called with: the default -1 and some others
ReadSizes == {-1, 0, 1, 5}

\* read(size) as a file does it: at most size characters, here of the next
\* line
ReaderReadChars(c, size) ==
    /\ CanCall(c)
    /\ IF size = -1
       THEN /\ Consume(Len(RemainingLines))
            /\ yielded' = yielded \o RemainingLines
            /\ lastRet' = Called("read", "value", Join(RemainingLines))
       ELSE IF RemainingLines # <<>>
       THEN /\ Consume(1)
            /\ yielded' = Append(yielded, RemainingLines[1])
            /\ lastRet' = Called("read_n", "value",
                                 SubSeq(RemainingLines[1], 1, Min(size, Len(RemainingLines[1]))))
       ELSE /\ Consume(0)
            /\ yielded' = yielded
            /\ lastRet' = Called("read_n", "value", <<>>)
    /\ ReadFrame

\* read(size): ''.join(self._buffer) when size is -1, else readline()
ReaderRead(c, size) ==
    IF size = -1
    THEN /\ CanCall(c)
         /\ Consume(Len(RemainingLines))
         /\ yielded' = yielded \o RemainingLines
         /\ lastRet' = Called("read", "value", Join(RemainingLines))
         /\ ReadFrame
    ELSE ReaderReadline(c, "read_n")

\* __enter__: return self
ReaderEnter(c) ==
    /\ CanCall(c)
    /\ scope = "none"
    /\ scope' = "entered"
    /\ UNCHANGED <<cls, arg, encArg, src, phase, exc, deleted, hState, hCloses, hPos,
                   header_lines, metadata_lines, metadata_text, hdrIdx, linePos,
                   encoding, stream, yielded, lastRet, inferVars, detVars>>

\* an __exit__ that closes whatever handle the reader reads from
ExitClosing(st) == IF st = "open" THEN "closed" ELSE st

\* what __exit__ does to the handle: pass
ExitEffect(st) == st

\* __exit__
ReaderExit(c) ==
    /\ cls = c
    /\ phase = "ready"
    /\ scope = "entered"
    /\ scope' = "exited"
    /\ hState' = ExitEffect(hState)
    /\ hCloses' = IF hState' # hState THEN hCloses + 1 ELSE hCloses
    /\ UNCHANGED <<cls, arg, encArg, src, phase, exc, deleted, hPos,
                   header_lines, metadata_lines, metadata_text, hdrIdx, linePos,
                   encoding, stream, yielded, lastRet, inferVars, detVars>>

\* ---------------------------------------------------------- ons.CSV: steps
\* CSV.__init__: open(path_or_buffer) unless it has a read attribute, then
\* self._buffer = self._iter(...)
CSV_init ==
    /\ cls = "CSV"
    /\ phase = "new"
    /\ LET it == Iter(src)
       IN  /\ hState' = "open"
           /\ hPos' = it.pulled
           /\ IF it.exc # "none"
              THEN /\ phase' = "raised"
                   /\ exc' = it.exc
                   /\ UNCHANGED <<header_lines, metadata_lines, metadata_text, linePos>>
              ELSE /\ phase' = "ready"
                   /\ exc' = "none"
                   /\ header_lines' = it.header_lines
                   /\ metadata_lines' = it.metadata_lines
                   /\ metadata_text' = Join(it.header_lines \o it.metadata_lines)
                   /\ linePos' = it.linePos
    /\ UNCHANGED <<cls, arg, encArg, src, scope, deleted, hCloses, hdrIdx,
                   encoding, stream, yielded, lastRet, inferVars, detVars>>

CSV_next == ReaderNext("CSV")

CSV_iter == ReaderIter("CSV")

CSV_readline == ReaderReadline("CSV", "readline")

CSV_read == \E size \in ReadSizes : ReaderRead("CSV", size)

\* a StringIO the text was written into: its position is at the end
NewStringIOWritten(initial_value) == [text |-> initial_value, pos |-> Len(initial_value)]

\* io.StringIO(initial_value): a new object over the text, positioned at
\* its start
NewStringIO(initial_value) == [text |-> initial_value, pos |-> 0]

\* StringIO.read(): the text from the position on
StringIORead(s) == SubSeq(s.text, s.pos + 1, Len(s.text))

\* the metadata property: io.StringIO(self._metadata), read in full
CSV_metadata ==
    /\ CanCall("CSV")
    /\ lastRet' = Called("metadata", "value", StringIORead(NewStringIO(metadata_text)))
    /\ UNCHANGED <<cls, arg, encArg, src, phase, exc, scope, deleted, hState, hCloses, hPos,
                   header_lines, metadata_lines, metadata_text, hdrIdx, linePos,
                   encoding, stream, yielded, inferVars, detVars>>

CSV_enter == ReaderEnter("CSV")

CSV_exit == ReaderExit("CSV")

\* ---------------------------------------------------------- imf.WEO: steps
\* the built-in map(function, *iterables) called with nargs arguments: it
\* needs the function and at least one iterable
PyMap(nargs) == IF nargs >= 2 THEN "none" ELSE "TypeError"

\* self._stream after the constructor's buffer routes: left None
StreamOfBuffer == "None"

\* WEO.__init__, route 1a: a StringIO is stored as it is
WEO_init_StringIO ==
    /\ arg = "StringIO"
    /\ phase' = "ready"
    /\ exc' = "none"
    /\ encoding' = "None"
    /\ stream' = StreamOfBuffer
    /\ UNCHANGED <<hState, hPos>>

\* hasattr(obj, 'read'): a branch of itertools.tee is a plain iterator
HasRead(obj) == obj \in {"StringIO", "BytesIO", "file"}

\* open(obj, ...) takes a path: any other object makes it raise
Open(obj) == IF obj = "path" THEN "none" ELSE "TypeError"

\* detect_encoding(obj, min_lines=..., max_lines=...): an object with a read
\* attribute is fed to the detector line by line; anything else is opened as
\* a path, and read through a handle of its own that the with-block closes.
\* fed counts the lines taken from obj itself.
detect_encoding(obj) ==
    IF HasRead(obj)
    THEN [exc |-> "none", fed |-> FeedLoop(0, Len(src), doneFrom, min_lines, max_lines),
          encoding |-> DetectorResult(FeedLoop(0, Len(src), doneFrom, min_lines, max_lines)).encoding]
    ELSE [exc |-> Open(obj), fed |-> 0,
          encoding |-> DetectorResult(FeedLoop(0, Len(src), doneFrom, min_lines, max_lines)).encoding]

\* WEO.__init__, route 1b: a BytesIO.  With no encoding or 'detect_' the
\* buffer is forked with itertools.tee and one branch, tmp, is handed to
\* detect_encoding; then, as with a given encoding,
\* self._buffer = map(lambda x: x.decode(self.encoding, buffer)): a call of
\* map with the lambda alone
WEO_init_BytesIO ==
    /\ arg = "BytesIO"
    /\ IF encArg \in {"None", "detect_"}
       THEN LET detected == detect_encoding("tee")
            IN  /\ hPos' = hPos + detected.fed
                /\ encoding' = IF detected.exc = "none" THEN detected.encoding ELSE encoding
                /\ exc' = IF detected.exc = "none" THEN PyMap(1) ELSE detected.exc
       ELSE /\ hPos' = hPos
            /\ encoding' = encArg
            /\ exc' = PyMap(1)
    /\ phase' = IF exc' = "none" THEN "ready" ELSE "raised"
    /\ stream' = StreamOfBuffer
    /\ UNCHANGED hState

\* WEO.__init__ handed any other object with a read attribute: it falls
\* through to the path routes, where Path(...) and open(...) refuse it
WEO_init_file ==
    /\ arg = "file"
    /\ IF encArg \in {"None", "infer_"}
       THEN /\ UNCHANGED <<hPos, encoding>>
       ELSE IF encArg = "detect_"
       THEN /\ hPos' = hPos + detect_encoding("file").fed
            /\ encoding' = detect_encoding("file").encoding
       ELSE /\ hPos' = hPos
            /\ encoding' = encArg
    /\ exc' = Open("file")
    /\ phase' = "raised"
    /\ stream' = StreamOfBuffer
    /\ UNCHANGED hState

\* WEO.__init__, routes 2a-2c: a path.  detect_encoding(path) reads the file
\* through a handle of its own, closed when it returns.
WEO_init_path ==
    /\ arg = "path"
    /\ LET named == infer_encoding(filename_or_path)
           failed == UsesName(arg, encArg) /\ named.kind # "return"
       IN  /\ exc' = IF failed THEN named.kind ELSE "none"
           /\ phase' = IF failed THEN "raised" ELSE "ready"
           /\ encoding' =
                IF failed THEN encoding
                ELSE IF UsesName(arg, encArg) THEN named.value
                ELSE IF encArg = "detect_" THEN detect_encoding("path").encoding
                ELSE encArg
           /\ hState' = IF failed THEN hState ELSE "open"
           /\ stream' = IF failed THEN "None" ELSE "handle"
    /\ UNCHANGED hPos

WEO_init ==
    /\ cls = "WEO"
    /\ phase = "new"
    /\ \/ WEO_init_StringIO
       \/ WEO_init_BytesIO
       \/ WEO_init_file
       \/ WEO_init_path
    /\ UNCHANGED <<cls, arg, encArg, src, scope, deleted, hCloses,
                   header_lines, metadata_lines, metadata_text, hdrIdx, linePos,
                   yielded, lastRet, inferVars, detVars>>

WEO_next == ReaderNext("WEO")

WEO_iter == ReaderIter("WEO")

WEO_readline == ReaderReadline("WEO", "readline")

WEO_read == \E size \in ReadSizes : ReaderRead("WEO", size)

WEO_enter == ReaderEnter("WEO")

WEO_exit == ReaderExit("WEO")

\* the guard of __del__ with the test left out
DelClosesAlways(st) == TRUE

\* __del__ closes the stream: if self._stream is not None
DelCloses(st) == st # "None"

\* WEO.__del__, when the reader is torn down outside a with-block
WEO_del ==
    /\ cls = "WEO"
    /\ phase # "new"
    /\ scope # "entered"
    /\ ~deleted
    /\ deleted' = TRUE
    /\ IF DelCloses(stream)
       THEN /\ hState' = "closed"
            /\ hCloses' = hCloses + 1
       ELSE UNCHANGED <<hState, hCloses>>
    /\ UNCHANGED <<cls, arg, encArg, src, phase, exc, scope, hPos,
                   header_lines, metadata_lines, metadata_text, hdrIdx, linePos,
                   encoding, stream, yielded, lastRet, inferVars, detVars>>

Next ==
    \/ CSV_init \/ CSV_next \/ CSV_iter \/ CSV_readline \/ CSV_read
    \/ CSV_metadata \/ CSV_enter \/ CSV_exit
    \/ WEO_init \/ WEO_next \/ WEO_iter \/ WEO_readline \/ WEO_read
    \/ WEO_enter \/ WEO_exit \/ WEO_del

Spec == Init /\ [][Next]_vars

\* ================================================================= claims

\* ---- the partition the CSV reader is specified to produce
RECURSIVE Repeat(_, _)
Repeat(x, n) == IF n <= 0 THEN <<>> ELSE <<x>> \o Repeat(x, n - 1)

RowClass(row) ==
    IF row # <<>> /\ row[1] = CODE THEN "Header"
    ELSE IF row # <<>> /\ row[1] \in FIELDS THEN "Metadata"
    ELSE "Data"

RECURSIVE Classify(_, _)
\* the class of every physical line from pos on, while Seeking: a logical
\* row gives its class to each of its lines, and every line from the first
\* Data row on is Data
Classify(lines, pos) ==
    IF pos >= Len(lines) THEN <<>>
    ELSE LET r == ReadRow(lines, pos)
             c == RowClass(r.row)
         IN  IF c = "Data" THEN Repeat("Data", Len(lines) - pos)
             ELSE Repeat(c, r.line_num - pos) \o Classify(lines, r.line_num)

RECURSIVE LinesOfClass(_, _, _)
LinesOfClass(lines, classes, c) ==
    IF lines = <<>> THEN <<>>
    ELSE (IF Head(classes) = c THEN <<Head(lines)>> ELSE <<>>)
         \o LinesOfClass(Tail(lines), Tail(classes), c)

ExpectedHeader == LinesOfClass(src, Classify(src, 0), "Header")

ExpectedMetadata == LinesOfClass(src, Classify(src, 0), "Metadata")

ExpectedData == LinesOfClass(src, Classify(src, 0), "Data")

\* the whole sequence of lines the reader yields over its lifetime
PrimaryView == yielded \o RemainingLines

\* C1: for every finite line stream, constructing the CSV reader produces
\* primary = the header lines followed by every line from the first Data
\* row on, and metadata = the header lines followed by the metadata lines,
\* in order and verbatim; every source line is in exactly one of primary and
\* the non-header part of metadata.
C1_PartitionOfEveryStream ==
    (cls = "CSV" /\ phase # "new") =>
        /\ phase = "ready"
        /\ PrimaryView = ExpectedHeader \o ExpectedData
        /\ metadata_text = Join(ExpectedHeader \o ExpectedMetadata)
        /\ metadata_lines = ExpectedMetadata
        /\ Len(PrimaryView) - Len(header_lines) + Len(metadata_lines) + Len(header_lines)
              = Len(src)

\* C3: a WEO built from a byte buffer with content detection is constructed
\* and yields, line for line, the decoding of every line of the buffer.
C3_ForkedBufferDecodes ==
    (cls = "WEO" /\ arg = "BytesIO" /\ encArg \in {"None", "detect_"} /\ phase # "new") =>
        /\ phase = "ready"
        /\ PrimaryView = [k \in 1..Len(src) |-> Decode(src[k], encoding)]

\* C4: a reader built from a path owns the handle it opened; once the reader
\* is released (its with-block left, or torn down) the handle is closed,
\* and closed exactly once.
C4_OwnedHandleClosedOnRelease ==
    (arg = "path" /\ phase = "ready" /\ (scope = "exited" \/ deleted)) =>
        (hState = "closed" /\ hCloses = 1)

Apr == <<"A", "p", "r">>

Oct == <<"O", "c", "t">>

Sep == <<"S", "e", "p">>

\* 'WEO', a 3-character month, a 4-digit year, then any suffix
ConventionStem(stem) ==
    /\ Len(stem) >= 10
    /\ SubSeq(stem, 1, 3) = <<"W", "E", "O">>
    /\ \A k \in 4..6 : ~IsSpace(stem[k])
    /\ \A k \in 7..10 : IsDigit(stem[k])

StemMonth(stem) == SubSeq(stem, 4, 6)

StemYear(stem) == SubSeq(stem, 7, 10)

StemSuffix(stem) == SubSeq(stem, 11, Len(stem))

Catalogued(m, y) == m \in {Apr, Oct} \/ (m = Sep /\ y = 2011)

TableValue(m, y) ==
    IF m = Apr THEN (IF y >= 2022 THEN "utf-16le" ELSE "ISO-8859-1")
    ELSE IF m = Oct THEN (IF y = 2020 THEN "utf-16le" ELSE "ISO-8859-1")
    ELSE "ISO-8859-1"

C9_UncataloguedReleaseRaises ==
    \A y \in MinYear..MaxYear :
        LET stem == PathStem(filename_or_path)
        IN  ( /\ inferred # Pending
              /\ ConventionStem(stem)
              /\ StemMonth(stem) \in DOMAIN MONTH_NUMBERS
              /\ StemYear(stem) = Digits(y)
              /\ ~Catalogued(StemMonth(stem), y) )
            => inferred.kind = "ValueError"

C9_Witness ==
    /\ PathStem(filename_or_path) = <<"W", "E", "O">> \o Sep \o Digits(2012) \o <<"a", "l", "l">>
    /\ inferred = Raises("ValueError", "Unable to infer file encoding from")

\* C10: a stem that does not fit the convention makes infer_encoding raise
\* the pattern-mismatch error; nothing is returned.
C10_MismatchRaises ==
    (inferred # Pending /\ ~ConventionStem(PathStem(filename_or_path)))
        => inferred = Raises("ValueError", "Unable to infer file encoding from name")

C10_Witness ==
    /\ PathStem(filename_or_path) = <<"w", "e", "o">> \o Apr \o Digits(2024) \o <<"a", "l", "l">>
    /\ inferred = Raises("ValueError", "Unable to infer file encoding from name")

\* ---- detect_encoding's budget
Stopped == dpc \in {"close", "returned"}

\* C6 as stated: with max_lines = N > 0 and a source of at least min_lines
\* lines, feeding never stops before min_lines lines were fed.
C6_NeverStopsBeforeMinLines ==
    (Stopped /\ max_lines > 0 /\ nLines >= min_lines) => i >= min_lines

\* C6 as amended: with max_lines = N > 0 and a source of at least min_lines
\* lines, feeding never stops before min(min_lines, N) lines were fed, even
\* if the detector is done earlier.
C6_NeverStopsBeforeMinOrMax ==
    (Stopped /\ max_lines > 0 /\ nLines >= min_lines) => i >= Min(min_lines, max_lines)

C6_Witness ==
    /\ dpc = "returned"
    /\ doneFrom < min_lines
    /\ min_lines < max_lines
    /\ min_lines < nLines
    /\ i = min_lines

\* C7: with max_lines = N > 0 at most N lines are fed, whatever min_lines
\* and the detector's state.
C7_AtMostMaxLines == max_lines > 0 => i <= max_lines

C7_Witness ==
    /\ dpc = "returned"
    /\ max_lines > 0
    /\ i = max_lines
    /\ max_lines < min_lines
    /\ max_lines < nLines
    /\ ~done

\* C8: detect_encoding returns the detector's result, and warns exactly when
\* the detector was not done when feeding stopped.
C8_WarnsIffNotDone ==
    dpc = "returned" =>
        /\ result = DetectorResult(i)
        /\ warned <=> ~DetectorDone(i, doneFrom)

C8_Witness ==
    /\ dpc = "returned"
    /\ warned
    /\ max_lines > 0
    /\ i = max_lines
    /\ i < nLines

\* ---- the suffix after the year, and the month token
\* C11: the suffix after the 4-digit year is optional and ignored: for a
\* catalogued (month, year), the stem WEO<month><year> with no suffix
\* resolves to what the same stem resolves to with any suffix added.
C11_EmptySuffixResolvesAlike ==
    \A y \in MinYear..MaxYear :
        LET stem == PathStem(filename_or_path)
        IN  ( /\ inferred # Pending
              /\ ConventionStem(stem)
              /\ StemSuffix(stem) = <<>>
              /\ StemYear(stem) = Digits(y)
              /\ Catalogued(StemMonth(stem), y) )
            => /\ inferred.kind = "return"
               /\ \A x \in Suffixes \ {<<>>} : inferred = infer_encoding(stem \o x)

\* C12: a stem that matches the pattern with a month token that is not in
\* the month table makes infer_encoding raise an unknown-month error, which
\* is not the pattern-mismatch error; nothing is returned.
C12_UnknownMonthRaises ==
    LET stem == PathStem(filename_or_path)
    IN  ( /\ inferred # Pending
          /\ ConventionStem(stem)
          /\ StemSuffix(stem) # <<>>
          /\ StemMonth(stem) \notin DOMAIN MONTH_NUMBERS )
        => /\ inferred.kind = "KeyError"
           /\ inferred # Raises("ValueError", "Unable to infer file encoding from name")

C12_Witness ==
    /\ PathStem(filename_or_path) = <<"W", "E", "O", "A", "P", "R">> \o Digits(2024) \o <<"a", "l", "l">>
    /\ inferred = Raises("KeyError", "month")

\* ---- logical rows of more than one physical line
RECURSIVE PrefixRows(_, _)
\* the logical rows from line pos on, up to and including the first Data
\* row: the physical lines each spans (from..to, 1-based) and its class
PrefixRows(lines, pos) ==
    IF pos >= Len(lines) THEN <<>>
    ELSE LET r == ReadRow(lines, pos)
             span == [from |-> pos + 1, to |-> r.line_num, class |-> RowClass(r.row)]
         IN  IF span.class = "Data" THEN <<span>>
             ELSE <<span>> \o PrefixRows(lines, r.line_num)

RECURSIVE LinesBefore(_, _, _)
\* the physical lines of the rows of class c among the first n rows
LinesBefore(rows, n, c) ==
    IF n = 0 THEN 0
    ELSE LinesBefore(rows, n - 1, c)
         + (IF rows[n].class = c THEN rows[n].to - rows[n].from + 1 ELSE 0)

\* C13: a logical row of the header/metadata prefix that spans k > 1
\* physical lines is classified once: its k lines stand together, in order,
\* in the bucket of its class, right after the lines of the earlier rows of
\* that class; the buckets hold nothing else, and the first Data row's lines
\* all come out of primary, right after the header.
C13_MultiLineRowInOneBucket ==
    (cls = "CSV" /\ phase = "ready") =>
        LET rows == PrefixRows(src, 0)
        IN  /\ Len(header_lines) = LinesBefore(rows, Len(rows), "Header")
            /\ Len(metadata_lines) = LinesBefore(rows, Len(rows), "Metadata")
            /\ \A n \in 1..Len(rows) :
                  LET k == rows[n].to - rows[n].from + 1
                      block == SubSeq(src, rows[n].from, rows[n].to)
                      off == LinesBefore(rows, n - 1, rows[n].class)
                  IN  k > 1 =>
                        CASE rows[n].class = "Header" ->
                                SubSeq(header_lines, off + 1, off + k) = block
                          [] rows[n].class = "Metadata" ->
                                SubSeq(metadata_lines, off + 1, off + k) = block
                          [] OTHER ->
                                SubSeq(PrimaryView, Len(header_lines) + 1,
                                       Len(header_lines) + k) = block

C13_Witness ==
    /\ cls = "CSV"
    /\ phase = "ready"
    /\ src = <<HeaderLine, UnitOpenLine, CloseLine>>
    /\ header_lines = <<HeaderLine>>
    /\ metadata_lines = <<UnitOpenLine, CloseLine>>
    /\ yielded = <<HeaderLine>>

\* ---- a stream with no Data row
\* the stream ends before any Data row: header and metadata rows only
EndsBeforeData == \A k \in 1..Len(src) : Classify(src, 0)[k] # "Data"

\* C14: partitioning a stream that ends before any Data row does not raise;
\* primary then holds the header lines and nothing else, and readline never
\* raises on it: it returns a line of primary or, once primary is
\* exhausted, ''.
C14_NoDataRowIsLegal ==
    (cls = "CSV" /\ phase # "new" /\ EndsBeforeData) =>
        /\ phase = "ready"
        /\ PrimaryView = ExpectedHeader
        /\ lastRet.op = "readline" =>
              /\ lastRet.kind = "value"
              /\ IF lastRet.val = <<>>
                 THEN RemainingLines = <<>>
                 ELSE yielded # <<>> /\ lastRet.val = yielded[Len(yielded)]

C14_Witness ==
    /\ cls = "CSV"
    /\ src = <<HeaderLine, TitleLine>>
    /\ yielded = <<HeaderLine>>
    /\ RemainingLines = <<>>
    /\ lastRet = Called("readline", "value", <<>>)

\* ---- the metadata view
\* C15: the metadata view is complete once the reader is constructed and
\* independent of primary: whenever metadata is read, whatever was read of
\* primary before, it gives the whole metadata text from its start, and
\* reading it moves nothing primary has left (the positions in the header
\* lines, in line_stream and in the source stay where they were).
C15_MetadataIndependent ==
    /\ []( /\ (cls = "CSV" /\ phase = "ready") =>
                 metadata_text = Join(ExpectedHeader \o ExpectedMetadata)
           /\ lastRet.op = "metadata" =>
                 lastRet = Called("metadata", "value", Join(ExpectedHeader \o ExpectedMetadata)) )
    /\ [][ lastRet'.op = "metadata" =>
              UNCHANGED <<hdrIdx, linePos, hPos, yielded, header_lines, src, metadata_text>> ]_vars

C15_Witness ==
    /\ cls = "CSV"
    /\ src = <<HeaderLine, TitleLine, DataLine>>
    /\ yielded = <<HeaderLine>>
    /\ RemainingLines = <<DataLine>>
    /\ lastRet = Called("metadata", "value", HeaderLine \o TitleLine)

\* ---- the sequential reader
\* C16: readline on a CSV or a WEO reader returns the next line while lines
\* remain and '' at the end of the stream; it never raises, however often it
\* is called on the exhausted reader and whatever was called before.
C16_ReadlineNeverRaises ==
    /\ []( lastRet.op = "readline" =>
              /\ lastRet.kind = "value"
              /\ IF lastRet.val = <<>>
                 THEN RemainingLines = <<>>
                 ELSE yielded # <<>> /\ lastRet.val = yielded[Len(yielded)] )
    /\ [][ (lastRet'.op = "readline" /\ (CSV_readline \/ WEO_readline)) =>
              IF RemainingLines # <<>>
              THEN lastRet' = Called("readline", "value", RemainingLines[1])
              ELSE lastRet' = Called("readline", "value", <<>>) ]_vars

C16_Witness ==
    /\ cls = "WEO"
    /\ arg = "path"
    /\ Len(src) = 2
    /\ Len(yielded) = 2
    /\ RemainingLines = <<>>
    /\ lastRet = Called("readline", "value", <<>>)

\* the reader's line sequence: for CSV the header lines and then every line
\* from the first Data row on, for WEO the text of every line of the source
LineSequence ==
    IF cls = "CSV" THEN ExpectedHeader \o ExpectedData
    ELSE [k \in 1..Len(src) |-> TextOf(src[k])]

C18_MinusOneFeedsAll == (Stopped /\ max_lines = -1) => i = nLines

C18_Witness ==
    /\ dpc = "returned"
    /\ max_lines = -1
    /\ doneFrom < nLines
    /\ min_lines < nLines
    /\ i = nLines
    /\ ~warned

\* C19: with max_lines = 0 feeding stops exactly at the first line index
\* i >= min_lines at which the detector is done, however late that is; a
\* detector that is never done is fed the whole source, and the call
\* returns.
C19_ZeroStopsWhenDone ==
    /\ (Stopped /\ max_lines = 0) =>
          /\ i = Min(nLines, Max(min_lines, doneFrom))
          /\ i < nLines => (i >= min_lines /\ DetectorDone(i, doneFrom))
          /\ \A k \in 1..(i - 1) : ~(k >= min_lines /\ DetectorDone(k, doneFrom))
    /\ (dpc = "loop" /\ max_lines = 0) =>
          /\ \A k \in 1..i : ~(k >= min_lines /\ DetectorDone(k, doneFrom))
          /\ i <= nLines
          /\ ENABLED NextDetect

C19_Witness ==
    /\ dpc = "returned"
    /\ max_lines = 0
    /\ min_lines = 1
    /\ doneFrom = MaxLines
    /\ nLines = MaxLines
    /\ i = MaxLines
    /\ ~warned

HasFirstData ==
    LET rows == PrefixRows(src, 0)
    IN  rows # <<>> /\ rows[Len(rows)].class = "Data"

FirstData ==
    LET rows == PrefixRows(src, 0)
    IN  rows[Len(rows)]

\* the parsed fields of the first Data row
FirstDataRow == ReadRow(src, FirstData.from - 1).row

\* C21: classification goes one way: once the first row whose first field
\* is neither CDID nor a metadata label has been seen, no later line is
\* classified Header or Metadata.  At every moment of the reader's life the
\* buckets hold the header and metadata lines from before that row and
\* nothing else; every line from that row on, also a later CDID or Title
\* row, comes out of primary at its place and is not in metadata.
C21_OneWayToData ==
    (cls = "CSV" /\ phase # "new" /\ HasFirstData /\ FirstDataRow # <<>>) =>
        LET first_data == FirstData
            from == first_data.from
            before == SubSeq(src, 1, from - 1)
            classes == Classify(before, 0)
        IN  /\ phase = "ready"
            /\ Len(header_lines) + Len(metadata_lines) = from - 1
            /\ header_lines = LinesOfClass(before, classes, "Header")
            /\ metadata_lines = LinesOfClass(before, classes, "Metadata")
            /\ metadata_text = Join(header_lines \o metadata_lines)
            /\ PrimaryView = header_lines \o SubSeq(src, from, Len(src))

C21_Witness ==
    /\ cls = "CSV"
    /\ src = <<HeaderLine, DataLine, TitleLine>>
    /\ header_lines = <<HeaderLine>>
    /\ metadata_lines = <<>>
    /\ yielded = <<HeaderLine, DataLine, TitleLine>>

\* the physical lines construction has to pull: those of the header and
\* metadata rows and of the first Data row
LinesThroughFirstData ==
    LET rows == PrefixRows(src, 0)
    IN  IF rows = <<>> THEN 0 ELSE rows[Len(rows)].to

\* C22: constructing the CSV reader pulls from the source the physical
\* lines of the header and metadata rows and of the first Data row, and not
\* one more; over the reader's life the source is only read forwards, a
\* line at a time as primary needs it, so each line is pulled once; and the
\* lines of the first Data row, already pulled, are the first data lines
\* primary yields.
C22_NoReadAhead ==
    (cls = "CSV" /\ phase # "new") =>
        LET through == LinesThroughFirstData
        IN  /\ hPos = Max(through, linePos)
            /\ hPos <= Len(src)
            /\ linePos <= hPos
            /\ (phase = "ready" /\ yielded = <<>>) => hPos = through
            /\ (phase = "ready" /\ HasFirstData) =>
                  LET first_data == FirstData
                  IN  /\ linePos >= first_data.from - 1
                      /\ SubSeq(PrimaryView, Len(header_lines) + 1,
                                Len(header_lines) + first_data.to - first_data.from + 1)
                            = SubSeq(src, first_data.from, first_data.to)

C22_Witness ==
    /\ cls = "CSV"
    /\ src = <<HeaderLine, DataLine, DataLine>>
    /\ hPos = 2
    /\ yielded = <<HeaderLine, DataLine>>
    /\ lastRet.op = "next"

\* C23: while Seeking, a row of zero fields (a blank physical line) matches
\* neither the header label nor a metadata label: it is classified Data
\* without raising, and primary yields the header lines, then the blank
\* line and everything after it.
C23_BlankRowIsData ==
    (cls = "CSV" /\ phase # "new" /\ HasFirstData /\ FirstDataRow = <<>>) =>
        /\ phase = "ready"
        /\ exc = "none"
        /\ PrimaryView = ExpectedHeader \o SubSeq(src, FirstData.from, Len(src))

\* C24: read(size) with a size other than -1 pays no attention to the
\* number: it returns the next whole line, as readline does, or '' at the
\* end of the stream, never a part of a line and never more than one line.
C24_SizedReadIsReadline ==
    /\ []( lastRet.op = "read_n" =>
              /\ lastRet.kind = "value"
              /\ IF lastRet.val = <<>>
                 THEN RemainingLines = <<>>
                 ELSE yielded # <<>> /\ lastRet.val = yielded[Len(yielded)] )
    /\ [][ (lastRet'.op = "read_n" /\ (CSV_read \/ WEO_read)) =>
              IF RemainingLines # <<>>
              THEN /\ lastRet' = Called("read_n", "value", RemainingLines[1])
                   /\ yielded' = Append(yielded, RemainingLines[1])
              ELSE /\ lastRet' = Called("read_n", "value", <<>>)
                   /\ yielded' = yielded ]_vars

C24_Witness ==
    /\ cls = "WEO"
    /\ arg = "StringIO"
    /\ src = <<<<"a", "\n">>, <<"b", "\n">>>>
    /\ yielded = <<<<"a", "\n">>>>
    /\ lastRet = Called("read_n", "value", <<"a", "\n">>)

====
